---- MODULE Spec2Model ----
(***************************************************************************)
(* Tawsif Travel dashboard (src/app.py): the upload / validation /         *)
(* normalisation / filter pipeline of the Streamlit script, as a state     *)
(* machine.  One action is one user interaction followed by the full       *)
(* top-to-bottom run of the script that Streamlit performs after it.       *)
(*                                                                         *)
(* Data representation                                                     *)
(*   table    [columns: Seq(STRING), rows: Seq(Seq(cell))], a row holds    *)
(*            one cell per column position (pandas allows duplicate        *)
(*            column labels, so columns are a sequence, not a set)         *)
(*   cell     [k, v, s]: k is the kind of value, v its number, s its text  *)
(*            k = "datetime"  a date/time value of v ticks                 *)
(*            k = "text"      the string s                                 *)
(*            k = "num"       the number v                                 *)
(*            k = "blank"     an empty spreadsheet cell                    *)
(*            k = "NaT"       pandas' missing timestamp                    *)
(*   ticks    day * TicksPerDay + time-of-day; a day is an ordinal,        *)
(*            day 0 being 2025-01-01                                       *)
(***************************************************************************)
EXTENDS Integers, Sequences, FiniteSets, TLC

\* ---------------------------------------------------------------- bounds
\* last calendar day (ordinal) a spreadsheet cell may carry: days 0..MaxDay
MaxDay == 1
\* resolution of the time of day: times 0..TicksPerDay-1, 0 is midnight
TicksPerDay == 2
\* largest number of records of a generated sheet
MaxRows == 2

\* ------------------------------------------------------- small utilities
\* Python's None for an optional value: <<>> is None, <<x>> is the value x
None == <<>>

\* "no element", the value of found_sheet when no alias matches
NoSheet == "None"

Range(s) == {s[i] : i \in 1..Len(s)}

Indices(s, x) == {i \in 1..Len(s) : s[i] = x}

Max2(a, b) == IF a >= b THEN a ELSE b

\* ------------------------------------------------------- schema registry
\* insertion order of the dict literals sheet_mapping / required_structure
SheetOrder ==
    <<"Daily_Summary", "Tickets_By_Airline", "Airline_Sales", "Staff_Sales", "Bank_Balances">>

Sheets == Range(SheetOrder)

sheet_mapping ==
    [s \in Sheets |->
        CASE s = "Daily_Summary" ->
                <<"Daily_Summary", "Daily Summary", "daily_summary", "Summary">>
          [] s = "Tickets_By_Airline" ->
                <<"Tickets_By_Airline", "Tickets By Airline", "tickets_by_airline", "Tickets">>
          [] s = "Airline_Sales" ->
                <<"Airline_Sales", "Airline Sales", "airline_sales", "Sales">>
          [] s = "Staff_Sales" ->
                <<"Staff_Sales", "Staff Sales", "staff_sales", "Staff">>
          [] s = "Bank_Balances" ->
                <<"Bank_Balances", "Bank Balances", "bank_balances", "Banks">>]

required_structure ==
    [s \in Sheets |->
        CASE s = "Daily_Summary" -> <<"Date", "Daily Sales", "Cash Balance", "Bank Balance">>
          [] s = "Tickets_By_Airline" -> <<"Date", "Branch", "Airline", "Tickets Issued">>
          [] s = "Airline_Sales" -> <<"Date", "Branch", "Airline", "Sales">>
          [] s = "Staff_Sales" -> <<"Date", "Branch", "Staff", "Tickets Issued", "Sales">>
          [] s = "Bank_Balances" -> <<"Date", "Branch", "Bank", "Balance">>]

column_alternatives ==
    ("Daily Sales" :> <<"Daily_Sales", "daily_sales", "Sales", "Total Sales">>)
    @@ ("Cash Balance" :> <<"Cash_Balance", "cash_balance", "Cash">>)
    @@ ("Bank Balance" :> <<"Bank_Balance", "bank_balance", "Bank">>)
    @@ ("Tickets Issued" :> <<"Tickets_Issued", "tickets_issued", "Tickets">>)
    @@ ("Balance" :> <<"balance", "Amount", "amount">>)

\* column_alternatives.get(req_col, [req_col])
AlternativesOf(req_col) ==
    IF req_col \in DOMAIN column_alternatives
    THEN column_alternatives[req_col]
    ELSE <<req_col>>

TicketsMapping ==
    ("Tickets_Issued" :> "Tickets Issued")
    @@ ("tickets_issued" :> "Tickets Issued")
    @@ ("Tickets" :> "Tickets Issued")

\* a slip in the rename table: 'Amount' sent to the spelling 'balance'
column_mapping_chained ==
    ("Daily_Summary" :>
        (("Daily_Sales" :> "Daily Sales") @@ ("daily_sales" :> "Daily Sales")
         @@ ("Sales" :> "Daily Sales") @@ ("Total Sales" :> "Daily Sales")
         @@ ("Cash_Balance" :> "Cash Balance") @@ ("cash_balance" :> "Cash Balance")
         @@ ("Cash" :> "Cash Balance")
         @@ ("Bank_Balance" :> "Bank Balance") @@ ("bank_balance" :> "Bank Balance")
         @@ ("Bank" :> "Bank Balance")))
    @@ ("Tickets_By_Airline" :> TicketsMapping)
    @@ ("Staff_Sales" :> TicketsMapping)
    @@ ("Bank_Balances" :>
        (("balance" :> "Balance") @@ ("Amount" :> "balance") @@ ("amount" :> "Balance")))

\* a slip in the rename table: the Staff_Sales entry forgets 'Tickets'
column_mapping_short ==
    ("Daily_Summary" :>
        (("Daily_Sales" :> "Daily Sales") @@ ("daily_sales" :> "Daily Sales")
         @@ ("Sales" :> "Daily Sales") @@ ("Total Sales" :> "Daily Sales")
         @@ ("Cash_Balance" :> "Cash Balance") @@ ("cash_balance" :> "Cash Balance")
         @@ ("Cash" :> "Cash Balance")
         @@ ("Bank_Balance" :> "Bank Balance") @@ ("bank_balance" :> "Bank Balance")
         @@ ("Bank" :> "Bank Balance")))
    @@ ("Tickets_By_Airline" :> TicketsMapping)
    @@ ("Staff_Sales" :>
        (("Tickets_Issued" :> "Tickets Issued") @@ ("tickets_issued" :> "Tickets Issued")))
    @@ ("Bank_Balances" :>
        (("balance" :> "Balance") @@ ("Amount" :> "Balance") @@ ("amount" :> "Balance")))

\* Airline_Sales has no entry
column_mapping ==
    ("Daily_Summary" :>
        (("Daily_Sales" :> "Daily Sales") @@ ("daily_sales" :> "Daily Sales")
         @@ ("Sales" :> "Daily Sales") @@ ("Total Sales" :> "Daily Sales")
         @@ ("Cash_Balance" :> "Cash Balance") @@ ("cash_balance" :> "Cash Balance")
         @@ ("Cash" :> "Cash Balance")
         @@ ("Bank_Balance" :> "Bank Balance") @@ ("bank_balance" :> "Bank Balance")
         @@ ("Bank" :> "Bank Balance")))
    @@ ("Tickets_By_Airline" :> TicketsMapping)
    @@ ("Staff_Sales" :> TicketsMapping)
    @@ ("Bank_Balances" :>
        (("balance" :> "Balance") @@ ("Amount" :> "Balance") @@ ("amount" :> "Balance")))

\* ------------------------------------------------------------ cells
Timestamp(day, tod) == [k |-> "datetime", v |-> day * TicksPerDay + tod, s |-> ""]

NaT == [k |-> "NaT", v |-> 0, s |-> ""]

Blank == [k |-> "blank", v |-> 0, s |-> ""]

Text(str) == [k |-> "text", v |-> 0, s |-> str]

Num(n) == [k |-> "num", v |-> n, s |-> ""]

\* Timestamp.date(): the calendar day of a timestamp
DateOf(cell) == cell.v \div TicksPerDay

\* time of day of a timestamp, 0 = midnight
TimeOf(cell) == cell.v % TicksPerDay

\* str.strip() on a column header
Strip(name) ==
    CASE name = " Balance " -> "Balance"
      [] name = "Airline " -> "Airline"
      [] name = " Date" -> "Date"
      [] OTHER -> name

\* pd.to_datetime(value, errors='coerce') on one cell: a date/time keeps its
\* time of day, anything that is no date becomes NaT
to_datetime(cell) ==
    IF cell.k = "datetime" THEN cell ELSE NaT

\* ------------------------------------------------------------ loader
\* first alias of the list that names a sheet of the workbook, or None
FoundSheet(possible_names, available_sheets) ==
    IF \E i \in 1..Len(possible_names) : possible_names[i] \in available_sheets
    THEN possible_names[CHOOSE i \in 1..Len(possible_names) :
            /\ possible_names[i] \in available_sheets
            /\ \A j \in 1..(i - 1) : possible_names[j] \notin available_sheets]
    ELSE NoSheet

\* lines 112-118 for one bound sheet
LoadSheet(raw) ==
    LET cols == [i \in 1..Len(raw.columns) |-> Strip(raw.columns[i])]
        dates == Indices(cols, "Date")
    IN  [columns |-> cols,
         rows |-> [r \in 1..Len(raw.rows) |->
                      [i \in 1..Len(cols) |->
                          IF i \in dates THEN to_datetime(raw.rows[r][i])
                          ELSE raw.rows[r][i]]]]

\* load_excel_data: <<mapped_data>>, the mapping canonical sheet -> table,
\* or None when reading raises (unreadable file; a duplicated 'Date' label
\* makes pd.to_datetime raise on the resulting frame)
load_excel_data(file) ==
    IF ~file.readable THEN None
    ELSE LET excel_data == file.sheets
             available_sheets == DOMAIN excel_data
             bound == {s \in Sheets :
                          FoundSheet(sheet_mapping[s], available_sheets) # NoSheet}
             raw(s) == excel_data[FoundSheet(sheet_mapping[s], available_sheets)]
         IN  IF \E s \in bound :
                    Cardinality({i \in 1..Len(raw(s).columns) :
                                    Strip(raw(s).columns[i]) = "Date"}) > 1
             THEN None
             ELSE <<[s \in bound |-> LoadSheet(raw(s))]>>

\* ------------------------------------------------------------ validator
\* df.empty: no rows or no columns
Empty(df) == Len(df.rows) = 0 \/ Len(df.columns) = 0

\* lines 166-176
Found(req_col, df_columns) ==
    \/ req_col \in Range(df_columns)
    \/ \E i \in 1..Len(AlternativesOf(req_col)) :
            AlternativesOf(req_col)[i] \in Range(df_columns)

\* messages one sheet contributes, lines 150-186
SheetMessages(sheet_name, data_dict) ==
    IF sheet_name \notin DOMAIN data_dict
    THEN <<[kind |-> "missing_sheet", sheet |-> sheet_name]>>
    ELSE LET df == data_dict[sheet_name]
             df_columns == [i \in 1..Len(df.columns) |-> Strip(df.columns[i])]
             missing_cols == SelectSeq(required_structure[sheet_name],
                                       LAMBDA c : ~Found(c, df_columns))
         IN  IF Empty(df)
             THEN <<[kind |-> "empty_sheet", sheet |-> sheet_name]>>
             ELSE IF missing_cols # <<>>
             THEN <<[kind |-> "missing_columns", sheet |-> sheet_name,
                     cols |-> missing_cols],
                    [kind |-> "available_columns", cols |-> df_columns]>>
             ELSE <<[kind |-> "success", sheet |-> sheet_name,
                     records |-> Len(df.rows)]>>

\* a validator that returns at the first sheet with a problem
RECURSIVE ValidateFailFast(_, _, _)
ValidateFailFast(data_dict, i, acc) ==
    IF i > Len(SheetOrder) \/ ~acc.is_valid THEN acc
    ELSE LET msgs == SheetMessages(SheetOrder[i], data_dict)
         IN  ValidateFailFast(data_dict, i + 1,
                [is_valid |-> acc.is_valid /\ msgs[1].kind = "success",
                 validation_results |-> acc.validation_results \o msgs])

\* the loop of lines 149-186 from sheet i on
RECURSIVE ValidateFrom(_, _, _)
ValidateFrom(data_dict, i, acc) ==
    IF i > Len(SheetOrder) THEN acc
    ELSE LET msgs == SheetMessages(SheetOrder[i], data_dict)
         IN  ValidateFrom(data_dict, i + 1,
                [is_valid |-> acc.is_valid /\ msgs[1].kind = "success",
                 validation_results |-> acc.validation_results \o msgs])

validate_data_structure(data_dict) ==
    ValidateFrom(data_dict, 1, [is_valid |-> TRUE, validation_results |-> <<>>])

\* ------------------------------------------------------------ normalizer
\* DataFrame.rename(columns=mapping): every label that is a key is replaced
Rename(df, mapping) ==
    [df EXCEPT !.columns =
        [i \in 1..Len(df.columns) |->
            IF df.columns[i] \in DOMAIN mapping THEN mapping[df.columns[i]]
            ELSE df.columns[i]]]

normalize_column_names(data_dict) ==
    [sheet_name \in DOMAIN data_dict |->
        IF sheet_name \in DOMAIN column_mapping
        THEN Rename(data_dict[sheet_name], column_mapping[sheet_name])
        ELSE data_dict[sheet_name]]

\* ------------------------------------------------------------ dates
IsLeap(y) == (y % 4 = 0 /\ y % 100 # 0) \/ y % 400 = 0

DaysInMonth(y, m) ==
    IF m = 2 THEN (IF IsLeap(y) THEN 29 ELSE 28)
    ELSE IF m \in {4, 6, 9, 11} THEN 30 ELSE 31

\* the calendar date n days after the first day of month m of year y
RECURSIVE CivilFrom(_, _, _)
CivilFrom(y, m, n) ==
    IF n < 0
    THEN LET py == IF m = 1 THEN y - 1 ELSE y
             pm == IF m = 1 THEN 12 ELSE m - 1
         IN  CivilFrom(py, pm, n + DaysInMonth(py, pm))
    ELSE IF n >= DaysInMonth(y, m)
    THEN CivilFrom(IF m = 12 THEN y + 1 ELSE y, IF m = 12 THEN 1 ELSE m + 1,
                   n - DaysInMonth(y, m))
    ELSE [year |-> y, month |-> m, day |-> n + 1]

\* year, month and day of a day ordinal; ordinal 0 is 2025-01-01
Civil(ordinal) == CivilFrom(2025, 1, ordinal)

\* date.strftime("%Y-%m-%d"): the printed fields, left to right
strftime_Ymd(ordinal) ==
    <<Civil(ordinal).year, Civil(ordinal).month, Civil(ordinal).day>>

\* timedelta(days=30) of lines 358 and 384
DefaultWindow == 30

\* ------------------------------------------------------------ widgets
\* value of a date_input: a single date is [tuple |-> FALSE, v |-> <<d>>],
\* a range is a tuple of 0, 1 or 2 dates
ADate(d) == [tuple |-> FALSE, v |-> <<d>>]

ATuple(ds) == [tuple |-> TRUE, v |-> ds]

IsDate(x) == ~x.tuple

\* ------------------------------------------------------------ dashboard
HasColumn(df, name) == name \in Range(df.columns)

\* position of the (single) column with this label
ColumnIndex(df, name) == CHOOSE i \in 1..Len(df.columns) : df.columns[i] = name

\* the days of the parseable cells of one table's Date column
TableDates(df) ==
    IF ~HasColumn(df, "Date") THEN {}
    ELSE {DateOf(to_datetime(df.rows[r][ColumnIndex(df, "Date")])) :
            r \in {q \in 1..Len(df.rows) :
                    to_datetime(df.rows[q][ColumnIndex(df, "Date")]) # NaT}}

\* lines 348-352: the days of all parseable Date cells of all tables
AllDates(data_dict) ==
    UNION {TableDates(data_dict[s]) : s \in DOMAIN data_dict}

SetMin(S) == CHOOSE x \in S : \A y \in S : x <= y

SetMax(S) == CHOOSE x \in S : \A y \in S : x >= y

\* which date widget lines 354-375 create
PickerFor(all_dates) ==
    IF all_dates = {} THEN "none"
    ELSE IF SetMin(all_dates) = SetMax(all_dates) THEN "single_date"
    ELSE "range_date"

Picker(data_dict) == PickerFor(AllDates(data_dict))

\* the value= argument of the widget, what it returns until the user changes it
DefaultSel(data_dict) ==
    LET all_dates == AllDates(data_dict)
        min_date == SetMin(all_dates)
        max_date == SetMax(all_dates)
        default_start == Max2(min_date, max_date - DefaultWindow)
    IN  CASE PickerFor(all_dates) = "single_date" -> ADate(max_date)
          [] PickerFor(all_dates) = "range_date" -> ATuple(<<default_start, max_date>>)
          [] OTHER -> ATuple(<<>>)

\* everything the widget can return: dates within [min_value, max_value]; the
\* range widget returns a tuple that is empty or holds only the start while
\* the user is choosing
PickerValues(data_dict) ==
    LET all_dates == AllDates(data_dict)
        min_date == SetMin(all_dates)
        max_date == SetMax(all_dates)
    IN  CASE PickerFor(all_dates) = "single_date" -> {ADate(d) : d \in min_date..max_date}
          [] PickerFor(all_dates) = "range_date" ->
                {ATuple(<<>>)}
                \cup {ATuple(<<d>>) : d \in min_date..max_date}
                \cup {ATuple(<<d, e>>) : <<d, e>> \in
                        {p \in (min_date..max_date) \X (min_date..max_date) : p[1] <= p[2]}}
          [] OTHER -> {}

\* lines 377-384
StartDate(data_dict, sel, today) ==
    IF AllDates(data_dict) = {} THEN ADate(today - DefaultWindow)
    ELSE IF sel.tuple /\ Len(sel.v) = 2 THEN ADate(sel.v[1])
    ELSE sel

EndDate(data_dict, sel, today) ==
    IF AllDates(data_dict) = {} THEN ADate(today)
    ELSE IF sel.tuple /\ Len(sel.v) = 2 THEN ADate(sel.v[2])
    ELSE sel

\* lines 388-390: 'All', then the distinct non-missing Branch values of
\* Tickets_By_Airline (as a set: the order of the options decides nothing)
BranchOptions(data_dict) ==
    {"All"} \cup
    (IF "Tickets_By_Airline" \in DOMAIN data_dict
        /\ HasColumn(data_dict["Tickets_By_Airline"], "Branch")
     THEN LET df == data_dict["Tickets_By_Airline"]
              b == ColumnIndex(df, "Branch")
          IN  {df.rows[r][b].s : r \in {q \in 1..Len(df.rows) : df.rows[q][b].k = "text"}}
     ELSE {})

\* pd.Timestamp(date): midnight of that day
TimestampOfDate(d) == Timestamp(d.v[1], 0)

\* a mask that compares the stored value of the cell without regard to
\* whether it holds a date at all
InRangeAnyCell(cell, start_date, end_date) ==
    /\ cell.v >= TimestampOfDate(start_date).v
    /\ cell.v <= TimestampOfDate(end_date).v

\* the mask of line 400 for one record
InRange(cell, start_date, end_date) ==
    /\ cell.k = "datetime"
    /\ cell.v >= TimestampOfDate(start_date).v
    /\ cell.v <= TimestampOfDate(end_date).v

\* lines 396-405 for one table
FilterTable(df, start_date, end_date, selected_branch) ==
    LET dated == IF HasColumn(df, "Date")
                 THEN SelectSeq(df.rows, LAMBDA row :
                        InRange(to_datetime(row[ColumnIndex(df, "Date")]),
                                start_date, end_date))
                 ELSE df.rows
    IN  [df EXCEPT !.rows =
            IF selected_branch # "All" /\ HasColumn(df, "Branch")
            THEN SelectSeq(dated, LAMBDA row :
                    /\ row[ColumnIndex(df, "Branch")].k = "text"
                    /\ row[ColumnIndex(df, "Branch")].s = selected_branch)
            ELSE dated]

\* pd.Timestamp(start_date) raises when start_date is a tuple
FilterRaises(data_dict, start_date, end_date) ==
    /\ \E s \in DOMAIN data_dict : HasColumn(data_dict[s], "Date")
    /\ ~IsDate(start_date) \/ ~IsDate(end_date)

\* Series.sum(): missing values are skipped
RECURSIVE SumCells(_, _)
SumCells(rows, i) ==
    IF rows = <<>> THEN 0
    ELSE (IF Head(rows)[i].k = "num" THEN Head(rows)[i].v ELSE 0) + SumCells(Tail(rows), i)

\* one KPI tile of lines 412-457: 'No data' when the table is absent or
\* empty; df[column] is a Series only when exactly one column has the label
\* (no such label: KeyError; several: a frame, whose aggregate cannot be
\* formatted as a number)
Tile(filtered_data, sheet_name, column) ==
    IF sheet_name \notin DOMAIN filtered_data \/ Empty(filtered_data[sheet_name])
    THEN [shown |-> "No data", value |-> 0, records |-> 0]
    ELSE IF Cardinality(Indices(filtered_data[sheet_name].columns, column)) # 1
    THEN [shown |-> "raise", value |-> 0, records |-> 0]
    ELSE [shown |-> "value",
          value |-> SumCells(filtered_data[sheet_name].rows,
                             ColumnIndex(filtered_data[sheet_name], column)),
          records |-> Len(filtered_data[sheet_name].rows)]

KpiTiles(filtered_data) ==
    [total_sales |-> Tile(filtered_data, "Daily_Summary", "Daily Sales"),
     total_tickets |-> Tile(filtered_data, "Tickets_By_Airline", "Tickets Issued"),
     avg_cash |-> Tile(filtered_data, "Daily_Summary", "Cash Balance"),
     total_bank_balance |-> Tile(filtered_data, "Bank_Balances", "Balance")]

KpiRaises(kpi) ==
    \E t \in DOMAIN kpi : kpi[t].shown = "raise"

NoOutput ==
    [view |-> "prompt", start_date |-> ATuple(<<>>), end_date |-> ATuple(<<>>),
     filtered_data |-> <<>>, kpi |-> <<>>, footer |-> <<>>]

\* lines 340-648: what one run of the script shows below the upload section
Render(state, sel, selected_branch, today) ==
    IF ~(state.data_loaded /\ DOMAIN state.data_dict # {}) THEN NoOutput
    ELSE LET data_dict == state.data_dict
             start_date == StartDate(data_dict, sel, today)
             end_date == EndDate(data_dict, sel, today)
             partial == [NoOutput EXCEPT !.view = "error",
                                         !.start_date = start_date,
                                         !.end_date = end_date]
         IN  IF FilterRaises(data_dict, start_date, end_date) THEN partial
             ELSE LET filtered_data ==
                        [s \in DOMAIN data_dict |->
                            FilterTable(data_dict[s], start_date, end_date, selected_branch)]
                      kpi == KpiTiles(filtered_data)
                  IN  IF KpiRaises(kpi)
                      THEN [partial EXCEPT !.filtered_data = filtered_data, !.kpi = kpi]
                      ELSE [view |-> "dashboard", start_date |-> start_date,
                            end_date |-> end_date, filtered_data |-> filtered_data,
                            kpi |-> kpi,
                            footer |-> <<strftime_Ymd(start_date.v[1]),
                                         strftime_Ymd(end_date.v[1])>>]

\* ------------------------------------------------------------ inputs
\* The workbooks a user may upload, generated from the schema: variations of
\* the sheet names, of one sheet's header, and of the Date cells of the rows.
Branches == <<"Main", "North">>

BranchOf(sheet_name, r) ==
    IF sheet_name \in {"Tickets_By_Airline", "Staff_Sales"}
    THEN Branches[((r - 1) % Len(Branches)) + 1]
    ELSE "Main"

CellFor(sheet_name, label, dates, r) ==
    CASE label = "Date" -> dates[r]
      [] label = "Branch" -> Text(BranchOf(sheet_name, r))
      [] label = "Airline" -> Text("Emirates")
      [] label = "Staff" -> Text("Ali")
      [] label = "Bank" /\ sheet_name = "Bank_Balances" -> Text("SNB")
      [] OTHER -> Num(r)

MakeTable(sheet_name, header, dates) ==
    [columns |-> header,
     rows |-> [r \in 1..Len(dates) |->
                [i \in 1..Len(header) |-> CellFor(sheet_name, Strip(header[i]), dates, r)]]]

\* a readable workbook: names[s] is the name sheet s is stored under (NoSheet
\* when the workbook lacks it); a sheet 'Sheet1' outside the schema is
\* always there
Workbook(names, headers, dates) ==
    [readable |-> TRUE,
     sheets |->
        [n \in {names[s] : s \in {t \in Sheets : names[t] # NoSheet}} \cup {"Sheet1"} |->
            IF n = "Sheet1" THEN [columns |-> <<"Notes">>, rows |-> <<>>]
            ELSE LET s == CHOOSE t \in Sheets : names[t] = n
                 IN  MakeTable(s, headers[s], dates[s])]]

Unreadable == [readable |-> FALSE, sheets |-> <<>>]

CanonicalNames == [s \in Sheets |-> s]

StdDates == [s \in Sheets |-> <<Timestamp(0, 0), Timestamp(MaxDay, 0)>>]

\* --- sheet names
SheetFiles ==
    {Workbook([s \in Sheets |-> IF s \in absent THEN NoSheet ELSE s],
              required_structure, StdDates) : absent \in SUBSET Sheets}
    \cup {Workbook([s \in Sheets |-> sheet_mapping[s][a]], required_structure, StdDates) :
            a \in 2..4}

\* a workbook with both 'Daily_Summary' and an empty 'Summary'
TwoSummaries ==
    LET wb == Workbook(CanonicalNames, required_structure, StdDates)
    IN  [wb EXCEPT !.sheets = ("Summary" :> [columns |-> <<"Date">>, rows |-> <<>>]) @@ @]

\* --- headers
AltSet(c) == IF c \in DOMAIN column_alternatives THEN Range(column_alternatives[c]) ELSE {}

Padded(c) ==
    CASE c = "Balance" -> {<<" Balance ">>}
      [] c = "Airline" -> {<<"Airline ">>}
      [] c = "Date" -> {<<" Date">>}
      [] OTHER -> {}

\* what may stand in a header in place of the required column c: nothing, an
\* alternative, c next to an alternative, two alternatives, c with blanks
Substitutes(c) ==
    {<<>>}
    \cup {<<x>> : x \in AltSet(c)}
    \cup {<<c, x>> : x \in AltSet(c)}
    \cup {<<p[1], p[2]>> : p \in {q \in AltSet(c) \X AltSet(c) : q[1] # q[2]}}
    \cup Padded(c)

HeaderVariants(sheet_name) ==
    LET req == required_structure[sheet_name]
    IN  {SubSeq(req, 1, i - 1) \o sub \o SubSeq(req, i + 1, Len(req)) :
            <<i, sub>> \in {p \in (1..Len(req)) \X UNION {Substitutes(req[j]) : j \in 1..Len(req)} :
                              p[2] \in Substitutes(req[p[1]])}}

HeaderFiles ==
    {Workbook(CanonicalNames, [required_structure EXCEPT ![p[1]] = p[2]], StdDates) :
        p \in {q \in Sheets \X UNION {HeaderVariants(s) : s \in Sheets} :
                q[2] \in HeaderVariants(q[1])}}

\* --- rows
DateCells ==
    {Timestamp(d, t) : d \in 0..MaxDay, t \in {0, TicksPerDay - 1}}
    \cup {Text("n/a"), Blank}

\* Date cells of the records after the first
LaterCells == {Timestamp(MaxDay, 0), Timestamp(MaxDay, TicksPerDay - 1), Blank}

\* one record, or MaxRows records: a first one and equal further ones
DateSeqs ==
    {<<c>> : c \in DateCells}
    \cup {[r \in 1..MaxRows |-> IF r = 1 THEN p[1] ELSE p[2]] : p \in DateCells \X LaterCells}

RowFiles ==
    {Workbook(CanonicalNames, required_structure, [s \in Sheets |-> ds]) : ds \in DateSeqs}
    \cup {Workbook(CanonicalNames, required_structure, [StdDates EXCEPT ![s] = <<>>]) :
            s \in Sheets}

\* a Tickets_By_Airline record without a branch
BlankBranch ==
    LET wb == Workbook(CanonicalNames, required_structure, StdDates)
        i == ColumnIndex(wb.sheets["Tickets_By_Airline"], "Branch")
    IN  [wb EXCEPT !.sheets["Tickets_By_Airline"].rows[1][i] = Blank]

AllFiles == SheetFiles \cup HeaderFiles \cup RowFiles \cup {TwoSummaries, BlankBranch, Unreadable}

\* the workbooks of a session: every variation of the rows, and one workbook
\* of each kind of the other variations
SessionFiles ==
    RowFiles
    \cup {BlankBranch, Unreadable,
          Workbook([s \in Sheets |-> NoSheet], required_structure, StdDates),
          Workbook([CanonicalNames EXCEPT !["Bank_Balances"] = NoSheet],
                   required_structure, StdDates),
          Workbook([s \in Sheets |-> sheet_mapping[s][4]], required_structure, StdDates),
          Workbook(CanonicalNames,
                   [required_structure EXCEPT !["Airline_Sales"] = <<"Date", "Branch", "Airline">>],
                   StdDates),
          Workbook(CanonicalNames,
                   [required_structure EXCEPT !["Daily_Summary"] =
                        <<"Date", "Daily Sales", "Daily_Sales", "Cash Balance", "Bank Balance">>],
                   StdDates),
          Workbook(CanonicalNames,
                   [required_structure EXCEPT !["Tickets_By_Airline"] =
                        <<"Date", "Branch", "Airline", "Tickets">>],
                   StdDates)}

\* date.today() of line 383
Todays == (MaxDay + 1)..(MaxDay + 2)

\* ------------------------------------------------------------ state
VARIABLES
    uploaded_file,     \* the file held by st.file_uploader: None or <<workbook>>
    session_state,     \* st.session_state: [data_loaded, data_dict]
    sel,               \* value returned by the date widget in the last run
    selected_branch,   \* value returned by the branch selectbox in the last run
    today              \* date.today() as read by the last run

vars == <<uploaded_file, session_state, sel, selected_branch, today>>

\* lines 254-256
Init ==
    /\ uploaded_file = None
    /\ session_state = [data_loaded |-> FALSE, data_dict |-> <<>>]
    /\ sel = ATuple(<<>>)
    /\ selected_branch = "All"
    /\ today = MaxDay + 1

\* Python truth value of the first result of load_excel_data
Truthy(loaded) == loaded # None /\ DOMAIN loaded[1] # {}

\* lines 259-287 for one file: what load_excel_data returns, what
\* validate_data_structure returns when it is called, the closing message,
\* and the tables stored in the session when validation succeeds
Pipeline(file) ==
    LET loaded == load_excel_data(file)
        checked == IF Truthy(loaded) THEN <<validate_data_structure(loaded[1])>> ELSE None
    IN  [mapped_data |-> loaded,
         validation |-> checked,
         status |-> IF ~Truthy(loaded) THEN "load_failed"
                    ELSE IF checked[1].is_valid THEN "loaded"
                    ELSE "validation_failed",
         stored |-> IF checked # None /\ checked[1].is_valid
                    THEN <<normalize_column_names(loaded[1])>>
                    ELSE None]

\* load_excel_data is memoised by @st.cache_data, and the whole upload
\* section is a function of the file: its results per workbook
PipelineOf == [f \in AllFiles |-> Pipeline(f)]

NoPipeline == [mapped_data |-> None, validation |-> None, status |-> "none", stored |-> None]

Processed(file) == IF file = None THEN NoPipeline ELSE PipelineOf[file[1]]

\* an upload section that clears the session when the file in the uploader
\* is not accepted
ProcessResetting(file, state) ==
    IF Processed(file).stored # None
    THEN [data_loaded |-> TRUE, data_dict |-> Processed(file).stored[1]]
    ELSE [data_loaded |-> FALSE, data_dict |-> <<>>]

\* the session state after the upload section
Process(file, state) ==
    IF Processed(file).stored # None
    THEN [data_loaded |-> TRUE, data_dict |-> Processed(file).stored[1]]
    ELSE state

GateOpen(state) == state.data_loaded /\ DOMAIN state.data_dict # {}

\* a run whose filter loop works on the session's tables themselves instead
\* of copies, so the filtered tables replace the stored ones
RunFilterInPlace(file, s, b, day) ==
    LET state == Process(file, session_state)
        out == Render(state, s, b, day)
    IN  /\ uploaded_file' = file
        /\ session_state' = IF DOMAIN out.filtered_data # {}
                            THEN [state EXCEPT !.data_dict = out.filtered_data]
                            ELSE state
        /\ sel' = s
        /\ selected_branch' = b
        /\ today' = day

\* one run of the script with this file in the uploader and these values
\* returned by the two sidebar widgets
Run(file, s, b, day) ==
    /\ uploaded_file' = file
    /\ session_state' = Process(file, session_state)
    /\ sel' = s
    /\ selected_branch' = b
    /\ today' = day

\* what the last run computed and showed: the script is rerun from the top on
\* every interaction, so these are functions of the state the run left
mapped_data == Processed(uploaded_file).mapped_data

validation == Processed(uploaded_file).validation

status == Processed(uploaded_file).status

output == Render(session_state, sel, selected_branch, today)

view == output.view

start_date == output.start_date

end_date == output.end_date

filtered_data == output.filtered_data

kpi == output.kpi

footer == output.footer

\* date.today() of line 383 is read only when no table has a valid date
TodaysFor(state) ==
    IF GateOpen(state) /\ AllDates(state.data_dict) = {} THEN Todays ELSE {MaxDay + 1}

\* the arguments that identify the date widget; a widget keeps the value the
\* user gave it for as long as these stay the same
PickerParams(state) ==
    IF ~GateOpen(state) THEN <<"none">>
    ELSE <<Picker(state.data_dict), DefaultSel(state.data_dict), AllDates(state.data_dict)>>

KeptSel(old, new) ==
    IF ~GateOpen(new) THEN ATuple(<<>>)
    ELSE IF PickerParams(old) = PickerParams(new) THEN sel
    ELSE DefaultSel(new.data_dict)

KeptBranch(old, new) ==
    IF ~GateOpen(new) THEN "All"
    ELSE IF GateOpen(old) /\ BranchOptions(old.data_dict) = BranchOptions(new.data_dict)
    THEN selected_branch
    ELSE "All"

\* the user puts a file into the uploader
Upload(files) ==
    \E f \in files, day \in Todays :
        /\ day \in TodaysFor(Process(<<f>>, session_state))
        /\ Run(<<f>>,
               KeptSel(session_state, Process(<<f>>, session_state)),
               KeptBranch(session_state, Process(<<f>>, session_state)),
               day)

\* the user clears the uploader
RemoveFile ==
    /\ uploaded_file # None
    /\ \E day \in TodaysFor(session_state) : Run(None, sel, selected_branch, day)

\* the user changes the date widget of the sidebar
ChangeDate ==
    /\ GateOpen(session_state)
    /\ \E s \in PickerValues(session_state.data_dict), day \in TodaysFor(session_state) :
        /\ s # sel
        /\ Run(uploaded_file, s, selected_branch, day)

\* the user picks another branch
ChangeBranch ==
    /\ GateOpen(session_state)
    /\ \E b \in BranchOptions(session_state.data_dict), day \in TodaysFor(session_state) :
        /\ b # selected_branch
        /\ Run(uploaded_file, sel, b, day)

Next ==
    \/ Upload(SessionFiles)
    \/ RemoveFile
    \/ ChangeDate
    \/ ChangeBranch

Spec == Init /\ [][Next]_vars

\* the first upload of a session, over every generated workbook
FirstUpload ==
    /\ uploaded_file = None
    /\ ~session_state.data_loaded
    /\ Upload(AllFiles)

SpecUpload == Init /\ [][FirstUpload]_vars

\* ------------------------------------------------------------ claims
\* the canonical sheets for which the workbook in the uploader has no alias
AbsentSheets ==
    {s \in Sheets : \A i \in 1..Len(sheet_mapping[s]) :
                        sheet_mapping[s][i] \notin DOMAIN uploaded_file[1].sheets}

\* the messages of the last validation that are about sheet s
MessagesAbout(s) ==
    SelectSeq(validation[1].validation_results,
              LAMBDA m : m.kind # "available_columns" /\ m.sheet = s)

\* the Date cells of a table
DateCellsOf(df) ==
    IF ~HasColumn(df, "Date") THEN {}
    ELSE {df.rows[r][ColumnIndex(df, "Date")] : r \in 1..Len(df.rows)}

\* C1: whenever the file in the uploader failed validation in the last run,
\* that run shows the upload prompt and no dashboard
C1_InvalidUploadShowsPrompt ==
    (validation # None /\ ~validation[1].is_valid) => view = "prompt"

\* C2: for every table with a Date column the filtered view holds exactly
\* the records whose calendar day lies in [start_date, end_date] (and whose
\* branch is the selected one), whatever time of day the cell carries
C2_FilterKeepsCalendarDays ==
    (DOMAIN filtered_data # {}) =>
        \A s \in DOMAIN filtered_data :
            LET df == session_state.data_dict[s]
            IN  HasColumn(df, "Date") =>
                  filtered_data[s].rows =
                    SelectSeq(df.rows, LAMBDA row :
                        /\ row[ColumnIndex(df, "Date")].k = "datetime"
                        /\ DateOf(row[ColumnIndex(df, "Date")]) >= start_date.v[1]
                        /\ DateOf(row[ColumnIndex(df, "Date")]) <= end_date.v[1]
                        /\ (selected_branch # "All" /\ HasColumn(df, "Branch")) =>
                              row[ColumnIndex(df, "Branch")] = Text(selected_branch))

\* C3: every non-missing Date value of every table held in the session has
\* no time of day
C3_SessionDatesArePure ==
    \A s \in DOMAIN session_state.data_dict :
        \A c \in DateCellsOf(session_state.data_dict[s]) :
            c.k = "datetime" => TimeOf(c) = 0

\* C4: after a successful upload every required canonical column name
\* occurs at most once in its table and no alternative spelling of a
\* required column of that sheet remains
C4_CanonicalNamesUnique ==
    status = "loaded" =>
        \A s \in DOMAIN session_state.data_dict :
            \A i \in 1..Len(required_structure[s]) :
                LET c == required_structure[s][i]
                    cols == session_state.data_dict[s].columns
                IN  /\ Cardinality(Indices(cols, c)) <= 1
                    /\ AltSet(c) \cap Range(cols) = {}

\* C5: when the uploaded workbook lacks a non-empty set of the canonical
\* sheets, validation runs and is false, each absent sheet gets exactly one
\* 'Missing sheet' message and every other sheet is reported too
C5_MissingSheetsReported ==
    (uploaded_file # None /\ uploaded_file[1].readable /\ AbsentSheets # {}) =>
        /\ validation # None
        /\ ~validation[1].is_valid
        /\ \A s \in AbsentSheets :
                MessagesAbout(s) = <<[kind |-> "missing_sheet", sheet |-> s]>>
        /\ \A s \in Sheets \ AbsentSheets :
                /\ Len(MessagesAbout(s)) = 1
                /\ MessagesAbout(s)[1].kind # "missing_sheet"

\* C6: a required column counts as present when its canonical name or any
\* alternative spelling is in the header, and the normaliser of the sheet
\* renames every spelling the validator accepted: each table that passed
\* validation has, after normalize_column_names, every required column
\* under its canonical name
C6_AcceptedSpellingsNormalized ==
    validation # None =>
        \A s \in DOMAIN mapped_data[1] :
            LET cols == mapped_data[1][s].columns
                req == required_structure[s]
                passed == MessagesAbout(s)[1].kind = "success"
            IN  /\ (~Empty(mapped_data[1][s])
                    /\ \A i \in 1..Len(req) :
                            ({req[i]} \cup AltSet(req[i])) \cap Range(cols) # {})
                   => passed
                /\ passed =>
                     Range(req) \subseteq
                        Range(normalize_column_names(mapped_data[1])[s].columns)
                /\ (passed /\ status = "loaded") =>
                     Range(req) \subseteq Range(session_state.data_dict[s].columns)

\* C6 witness: a workbook that passed validation with an alternative
\* spelling, stored in the session under the canonical names
C6_Witness ==
    /\ status = "loaded"
    /\ \E s \in Sheets :
        /\ ~(Range(required_structure[s]) \subseteq Range(mapped_data[1][s].columns))
        /\ Range(required_structure[s]) \subseteq Range(session_state.data_dict[s].columns)

\* C7: normalize_column_names applied twice gives the same column names as
\* applied once, for every loaded workbook (valid or not); no canonical name
\* is a key of the rename table of its sheet
C7_NormalizeIdempotent ==
    /\ \A s \in DOMAIN column_mapping : \A key \in DOMAIN column_mapping[s] :
            column_mapping[s][key] \notin DOMAIN column_mapping[s]
    /\ mapped_data # None =>
        LET once == normalize_column_names(mapped_data[1])
            twice == normalize_column_names(once)
        IN  \A s \in DOMAIN once : twice[s].columns = once[s].columns

\* C7 witness: a loaded workbook in which normalisation renamed a column
C7_Witness ==
    /\ mapped_data # None
    /\ \E s \in DOMAIN mapped_data[1] :
            normalize_column_names(mapped_data[1])[s].columns # mapped_data[1][s].columns

\* C8: once validated data is in the session no run ends in an error
C8_DashboardNeverRaises ==
    session_state.data_loaded => view # "error"

\* the kind of message sheet s must get from the validator
ExpectedKind(data_dict, s) ==
    IF s \notin DOMAIN data_dict THEN "missing_sheet"
    ELSE IF Empty(data_dict[s]) THEN "empty_sheet"
    ELSE IF \E i \in 1..Len(required_structure[s]) :
                ({required_structure[s][i]} \cup AltSet(required_structure[s][i]))
                    \cap Range(data_dict[s].columns) = {}
    THEN "missing_columns"
    ELSE "success"

\* C9: for every loaded mapping (the empty one included) the validator
\* reports all five sheets in the fixed order, one message per sheet, a
\* 'missing columns' message being followed at once by the 'available
\* columns' message and no other message being followed by one; a success
\* carries the record count; validity holds exactly when all five succeed
C9_ValidationExhaustiveAndOrdered ==
    mapped_data # None =>
        LET res == validate_data_structure(mapped_data[1])
            msgs == res.validation_results
            heads == SelectSeq(msgs, LAMBDA m : m.kind # "available_columns")
        IN  /\ Len(heads) = Len(SheetOrder)
            /\ \A i \in 1..Len(heads) :
                    /\ heads[i].sheet = SheetOrder[i]
                    /\ heads[i].kind = ExpectedKind(mapped_data[1], SheetOrder[i])
                    /\ heads[i].kind = "success" =>
                            heads[i].records = Len(mapped_data[1][SheetOrder[i]].rows)
            /\ \A j \in 1..Len(msgs) :
                    /\ msgs[j].kind = "missing_columns" =>
                            j < Len(msgs) /\ msgs[j + 1].kind = "available_columns"
                    /\ msgs[j].kind = "available_columns" =>
                            j > 1 /\ msgs[j - 1].kind = "missing_columns"
            /\ res.is_valid <=> \A i \in 1..Len(heads) : heads[i].kind = "success"
            /\ validation # None => validation[1] = res

\* C9 witness: a workbook whose first problem is followed by further sheets,
\* all reported
C9_Witness ==
    /\ validation # None
    /\ \E j \in 1..Len(validation[1].validation_results) :
        /\ validation[1].validation_results[j].kind # "success"
        /\ j < Len(validation[1].validation_results)
        /\ validation[1].validation_results[Len(validation[1].validation_results)].kind
                = "success"

\* a date printed day first, then month, then the four-digit year
FormatDMY(ordinal) ==
    <<Civil(ordinal).day, Civil(ordinal).month, Civil(ordinal).year>>

\* C10: the footer of a rendered dashboard prints the start and the end of
\* the range day first, then month, then the four-digit year
C10_FooterDayMonthYear ==
    view = "dashboard" =>
        footer = <<FormatDMY(start_date.v[1]), FormatDMY(end_date.v[1])>>

\* C11: a run caused by a change of the date widget or of the branch
\* selectbox leaves st.session_state (data_loaded and the stored tables) as
\* it was: the filtered view is built from copies
C11_FilterLeavesSession ==
    [][(ChangeDate \/ ChangeBranch) => session_state' = session_state]_vars

\* C11 witness: a dashboard rendered for a branch and a date selection the
\* user made, the stored tables still holding records outside the selection
C11_Witness ==
    /\ view = "dashboard"
    /\ selected_branch # "All"
    /\ sel # DefaultSel(session_state.data_dict)
    /\ \E s \in DOMAIN filtered_data :
            Len(filtered_data[s].rows) < Len(session_state.data_dict[s].rows)

\* the records of a stored table whose date falls within
\* [start_date, end_date], both days included
DateRangeRecords(df) ==
    IF ~HasColumn(df, "Date") THEN df.rows
    ELSE SelectSeq(df.rows, LAMBDA row :
            /\ row[ColumnIndex(df, "Date")].k = "datetime"
            /\ DateOf(row[ColumnIndex(df, "Date")]) \in start_date.v[1]..end_date.v[1])

\* the records among rows whose Branch cell equals the selected branch
OfSelectedBranch(df, rows) ==
    SelectSeq(rows, LAMBDA row : row[ColumnIndex(df, "Branch")] = Text(selected_branch))

\* the KPI tiles computed from one table
TilesOf(s) ==
    CASE s = "Daily_Summary" -> {"total_sales", "avg_cash"}
      [] s = "Tickets_By_Airline" -> {"total_tickets"}
      [] s = "Bank_Balances" -> {"total_bank_balance"}
      [] OTHER -> {}

\* C12: with a branch other than 'All' selected, the filtered view of every
\* table with a Branch column holds exactly the date-range records of that
\* branch, and is an empty table whose tiles show 'No data' when there is no
\* such record; with 'All' selected, or for a table without a Branch column,
\* the view is what the date range alone keeps
C12_BranchFilterExact ==
    (DOMAIN filtered_data # {}) =>
        \A s \in DOMAIN filtered_data :
            LET df == session_state.data_dict[s]
            IN  IF selected_branch # "All" /\ HasColumn(df, "Branch")
                THEN /\ filtered_data[s].rows = OfSelectedBranch(df, DateRangeRecords(df))
                     /\ OfSelectedBranch(df, DateRangeRecords(df)) = <<>> =>
                            \A t \in TilesOf(s) : kpi[t].shown = "No data"
                ELSE filtered_data[s] = FilterTable(df, start_date, end_date, "All")

\* the sheet of the uploaded workbook that is bound to canonical sheet s
RawSheet(file, s) ==
    file.sheets[FoundSheet(sheet_mapping[s], DOMAIN file.sheets)]

\* the workbook has a sheet with two columns labelled Date
DateLabelTwice(file) ==
    \E n \in DOMAIN file.sheets :
        Cardinality({i \in 1..Len(file.sheets[n].columns) :
                        Strip(file.sheets[n].columns[i]) = "Date"}) > 1

\* a Date cell that holds no date
Unparseable(cell) == cell.k # "datetime"

\* the records of a table that carry a date
Dated(df) ==
    SelectSeq(df.rows, LAMBDA row : ~Unparseable(row[ColumnIndex(df, "Date")]))

\* C13: Date cells that hold no date do not make the load fail; each such
\* record is in the loaded table, its Date cell NaT and its other cells as
\* in the workbook; and whatever the date selection, no record without a
\* date is in a filtered view, and the KPI tiles count records with a date
\* only
C13_UnparseableDateKeptThenExcluded ==
    /\ (uploaded_file # None /\ uploaded_file[1].readable
            /\ ~DateLabelTwice(uploaded_file[1])) =>
         /\ mapped_data # None
         /\ \A s \in DOMAIN mapped_data[1] :
              LET raw == RawSheet(uploaded_file[1], s)
                  df == mapped_data[1][s]
              IN  /\ Len(df.rows) = Len(raw.rows)
                  /\ \A r \in 1..Len(raw.rows), i \in 1..Len(raw.columns) :
                        df.rows[r][i] =
                            IF df.columns[i] = "Date" /\ Unparseable(raw.rows[r][i])
                            THEN NaT
                            ELSE raw.rows[r][i]
    /\ \A s \in DOMAIN filtered_data :
         HasColumn(filtered_data[s], "Date") =>
            /\ Dated(filtered_data[s]) = filtered_data[s].rows
            /\ \A t \in TilesOf(s) :
                  kpi[t].shown = "value" =>
                      kpi[t].records = Len(Dated(filtered_data[s]))

\* C13 witness: the uploaded workbook has a Date cell that holds no date,
\* its record is stored in the session with a NaT date, and the dashboard
\* shows a non-empty view of that table without it
C13_Witness ==
    /\ uploaded_file # None
    /\ view = "dashboard"
    /\ \E s \in DOMAIN filtered_data :
         /\ \E r \in 1..Len(RawSheet(uploaded_file[1], s).rows) :
               /\ Unparseable(RawSheet(uploaded_file[1], s).rows[r][
                                ColumnIndex(session_state.data_dict[s], "Date")])
               /\ session_state.data_dict[s].rows[r][
                    ColumnIndex(session_state.data_dict[s], "Date")] = NaT
         /\ filtered_data[s].rows # <<>>
         /\ Len(filtered_data[s].rows) < Len(session_state.data_dict[s].rows)

\* C14: a run whose upload is not accepted (no file, unreadable file, no
\* sheet matched, validation failed) leaves st.session_state as it was;
\* data_loaded never goes from true to false; and a run whose upload is
\* accepted leaves data_loaded true and data_dict equal to the normalization
\* of the tables loaded from that file
C14_SessionChangesOnlyOnValidUpload ==
    [][/\ status' # "loaded" => session_state' = session_state
       /\ session_state.data_loaded => session_state'.data_loaded
       /\ status' = "loaded" =>
            session_state' = [data_loaded |-> TRUE,
                              data_dict |-> normalize_column_names(mapped_data'[1])]]_vars

\* C14 witness: the file in the uploader was rejected by the last run, by
\* the loader or by the validator, and the session still holds the tables
\* of an earlier upload
C14_Witness ==
    /\ status \in {"load_failed", "validation_failed"}
    /\ session_state.data_loaded
    /\ DOMAIN session_state.data_dict # {}

====
